---- MODULE Spec2Model ----
(***************************************************************************)
(* Model of scripts/compare_wcag_json.py: the reconciliation of two WCAG   *)
(* JSON documents (Tenon vs W3C).                                          *)
(*                                                                         *)
(* Python values are tagged records, the payload field named by the type: *)
(*   None  [t |-> "null"]                                                  *)
(*   str   [t |-> "str",  chars |-> sequence of one-character strings]     *)
(*   int   [t |-> "num",  int |-> integer]                                 *)
(*   bool  [t |-> "bool", bool |-> BOOLEAN]                                *)
(*   list  [t |-> "list", elems |-> sequence of values]                    *)
(*   dict  [t |-> "dict", pairs |-> sequence of <<key, value>> in          *)
(*          insertion order, key a sequence of characters, keys distinct]  *)
(* Text is a sequence of characters so that strip, the regular             *)
(* expressions, json.dumps and the lexicographic order are computed, not   *)
(* assumed.  The character set is the ASCII subset listed in AsciiOrder;   *)
(* floats and non-ASCII text are outside the model.                        *)
(***************************************************************************)
EXTENDS Integers, Sequences, FiniteSets, TLC

VARIABLES
    pc,             \* position in main(), or "call"/"ret" around a function call
    tenon, w3c,     \* main: the two parsed documents
    tenon_map, w3c_map,
    only_tenon, only_w3c, common,
    changes,        \* main: the list of {"id", "diffs"} entries
    pos,            \* main: position of the for loop over common
    report,         \* main: the report object (None until assembled)
    item,           \* extract_id's argument
    data,           \* guess_items' argument
    v,              \* normalize_text's argument
    a, b, key_whitelist,   \* diff_for_item's arguments
    ret             \* the called function's return value

vars == <<pc, tenon, w3c, tenon_map, w3c_map, only_tenon, only_w3c, common,
          changes, pos, report, item, data, v, a, b, key_whitelist, ret>>

-----------------------------------------------------------------------------
(* Python values *)

None == [t |-> "null"]
Str(s) == [t |-> "str", chars |-> s]
Num(n) == [t |-> "num", int |-> n]
Bool(x) == [t |-> "bool", bool |-> x]
List(l) == [t |-> "list", elems |-> l]
Dict(kvs) == [t |-> "dict", pairs |-> kvs]

IsStr(x) == x.t = "str"
IsList(x) == x.t = "list"
IsDict(x) == x.t = "dict"

\* dict.keys() as a set, `k in d`, d.get(k), d[k] for present k
Keys(d) == {d.pairs[i][1] : i \in DOMAIN d.pairs}
HasKey(d, k) == \E i \in DOMAIN d.pairs : d.pairs[i][1] = k
Get(d, k) ==
    IF HasKey(d, k)
    THEN d.pairs[CHOOSE i \in DOMAIN d.pairs : d.pairs[i][1] = k][2]
    ELSE None

\* Python truthiness of the values the code tests with `if x:` / `if not x:`
Truthy(x) ==
    CASE x.t = "null" -> FALSE
      [] x.t = "str" -> Len(x.chars) > 0
      [] x.t = "list" -> Len(x.elems) > 0
      [] x.t = "dict" -> Len(x.pairs) > 0
      [] x.t = "num" -> x.int # 0
      [] x.t = "bool" -> x.bool
      [] OTHER -> TRUE

-----------------------------------------------------------------------------
(* Characters and text *)

\* The characters of the model in code point order.
AsciiOrder ==
    << "\t", "\n", " ", "\"", ",", "-", ".", "0", "1", "2", "3", "4", "5",
       "6", "7", "8", "9", ":", "A", "B", "C", "D", "E", "F", "G", "H",
       "I", "J", "K", "L", "M", "N", "O", "P", "Q", "R", "S", "T", "U",
       "V", "W", "X", "Y", "Z", "[", "\\", "]", "_", "a", "b", "c", "d",
       "e", "f", "g", "h", "i", "j", "k", "l", "m", "n", "o", "p", "q",
       "r", "s", "t", "u", "v", "w", "x", "y", "z", "{", "}" >>

Alphabet == {AsciiOrder[i] : i \in DOMAIN AsciiOrder}

\* Rank of a character in code point order (order-isomorphic to ord()).
CodeRank == [c \in Alphabet |-> CHOOSE i \in DOMAIN AsciiOrder : AsciiOrder[i] = c]

Digits == <<"0", "1", "2", "3", "4", "5", "6", "7", "8", "9">>
IsDigit(c) == \E i \in DOMAIN Digits : Digits[i] = c      \* \d
IsSpace(c) == c \in {" ", "\t", "\n"}                      \* \s, str.isspace

Min(S) == CHOOSE x \in S : \A y \in S : x <= y
Max(S) == CHOOSE x \in S : \A y \in S : x >= y

\* Python's str <: lexicographic by code point, a proper prefix first.
LessStr(s, u) ==
    \E i \in 1..(Len(s) + 1) :
        /\ \A j \in 1..(i - 1) : j <= Len(u) /\ s[j] = u[j]
        /\ \/ i = Len(s) + 1 /\ Len(u) >= i
           \/ i <= Len(s) /\ i <= Len(u) /\ CodeRank[s[i]] < CodeRank[u[i]]

\* sorted(S) for a set of strings
RECURSIVE Sorted_shorter_first(_)
Sorted_shorter_first(S) ==
    IF S = {} THEN <<>>
    ELSE LET m == CHOOSE x \in S : \A y \in S \ {x} :
                      Len(x) < Len(y) \/ (Len(x) = Len(y) /\ LessStr(x, y))
         IN <<m>> \o Sorted_shorter_first(S \ {m})

RECURSIVE Sorted(_)
Sorted(S) ==
    IF S = {} THEN <<>>
    ELSE LET m == CHOOSE x \in S : \A y \in S \ {x} : LessStr(x, y)
         IN <<m>> \o Sorted(S \ {m})

\* str.strip()
Strip(s) ==
    LET ink == {i \in 1..Len(s) : ~IsSpace(s[i])}
    IN IF ink = {} THEN <<>> ELSE SubSeq(s, Min(ink), Max(ink))

\* re.sub(r"\s+", " ", s): every maximal run of whitespace becomes one space
RECURSIVE SubSpaces(_, _)
SubSpaces(s, i) ==
    IF i > Len(s) THEN <<>>
    ELSE IF ~IsSpace(s[i]) THEN <<s[i]>> \o SubSpaces(s, i + 1)
    ELSE IF i > 1 /\ IsSpace(s[i - 1]) THEN SubSpaces(s, i + 1)
    ELSE <<" ">> \o SubSpaces(s, i + 1)

\* sep.join(parts)
RECURSIVE Join(_, _)
Join(parts, sep) ==
    IF Len(parts) = 0 THEN <<>>
    ELSE IF Len(parts) = 1 THEN parts[1]
    ELSE parts[1] \o sep \o Join(Tail(parts), sep)

-----------------------------------------------------------------------------
(* json.dumps(v, ensure_ascii=False, sort_keys=True) *)

\* str(n) for an integer
RECURSIVE IntText(_)
IntText(n) ==
    IF n < 0 THEN <<"-">> \o IntText(-n)
    ELSE IF n < 10 THEN <<Digits[n + 1]>>
    ELSE IntText(n \div 10) \o <<Digits[(n % 10) + 1]>>

\* the JSON encoder's escape of one character
EscapeChar(c) ==
    CASE c = "\"" -> <<"\\", "\"">>
      [] c = "\\" -> <<"\\", "\\">>
      [] c = "\n" -> <<"\\", "n">>
      [] c = "\t" -> <<"\\", "t">>
      [] OTHER -> <<c>>

RECURSIVE EscapeFrom(_, _)
EscapeFrom(s, i) ==
    IF i > Len(s) THEN <<>> ELSE EscapeChar(s[i]) \o EscapeFrom(s, i + 1)

Quoted(s) == <<"\"">> \o EscapeFrom(s, 1) \o <<"\"">>

\* json.dumps without sort_keys: a mapping's keys in insertion order
RECURSIVE json_dumps_insertion_order(_)
json_dumps_insertion_order(x) ==
    CASE x.t = "null" -> <<"n", "u", "l", "l">>
      [] x.t = "bool" -> IF x.bool THEN <<"t", "r", "u", "e">>
                         ELSE <<"f", "a", "l", "s", "e">>
      [] x.t = "num" -> IntText(x.int)
      [] x.t = "str" -> Quoted(x.chars)
      [] x.t = "list" ->
            <<"[">>
            \o Join([i \in DOMAIN x.elems |-> json_dumps_insertion_order(x.elems[i])],
                    <<",", " ">>)
            \o <<"]">>
      [] x.t = "dict" ->
            <<"{">>
            \o Join([i \in DOMAIN x.pairs |->
                        Quoted(x.pairs[i][1]) \o <<":", " ">>
                        \o json_dumps_insertion_order(x.pairs[i][2])],
                    <<",", " ">>)
            \o <<"}">>

RECURSIVE json_dumps(_)
json_dumps(x) ==
    CASE x.t = "null" -> <<"n", "u", "l", "l">>
      [] x.t = "bool" -> IF x.bool THEN <<"t", "r", "u", "e">>
                         ELSE <<"f", "a", "l", "s", "e">>
      [] x.t = "num" -> IntText(x.int)
      [] x.t = "str" -> Quoted(x.chars)
      [] x.t = "list" ->
            <<"[">>
            \o Join([i \in DOMAIN x.elems |-> json_dumps(x.elems[i])], <<",", " ">>)
            \o <<"]">>
      [] x.t = "dict" ->
            LET ks == Sorted(Keys(x))
            IN <<"{">>
               \o Join([i \in DOMAIN ks |->
                           Quoted(ks[i]) \o <<":", " ">> \o json_dumps(Get(x, ks[i]))],
                       <<",", " ">>)
               \o <<"}">>

-----------------------------------------------------------------------------
(* normalize_text *)

normalize_text_all_dumped(x) ==
    IF x = None THEN Str(<<>>) ELSE Str(json_dumps(x))
\* normalize_text without its `if v is None` branch
normalize_text_null_dumped(x) ==
    IF IsStr(x) THEN Str(SubSpaces(Strip(x.chars), 1)) ELSE Str(json_dumps(x))
normalize_text(x) ==
    IF x = None THEN Str(<<>>)
    ELSE IF IsStr(x) THEN Str(SubSpaces(Strip(x.chars), 1))
    ELSE Str(json_dumps(x))

-----------------------------------------------------------------------------
(* Field names, as text *)

K_successCriteria == <<"s", "u", "c", "c", "e", "s", "s", "C", "r", "i", "t", "e", "r", "i", "a">>
K_criteria == <<"c", "r", "i", "t", "e", "r", "i", "a">>
K_criterios == <<"c", "r", "i", "t", "e", "r", "i", "o", "s">>
K_items == <<"i", "t", "e", "m", "s">>
K_wcag == <<"w", "c", "a", "g">>
K_guidelines == <<"g", "u", "i", "d", "e", "l", "i", "n", "e", "s">>
K_Guidelines == <<"G", "u", "i", "d", "e", "l", "i", "n", "e", "s">>
K_id == <<"i", "d">>
K_scId == <<"s", "c", "I", "d">>
K_successCriterion == <<"s", "u", "c", "c", "e", "s", "s", "C", "r", "i", "t", "e", "r", "i", "o", "n">>
K_criterion == <<"c", "r", "i", "t", "e", "r", "i", "o", "n">>
K_numero == <<"n", "u", "m", "e", "r", "o">>
K_number == <<"n", "u", "m", "b", "e", "r">>
K_level == <<"l", "e", "v", "e", "l">>
K_title == <<"t", "i", "t", "l", "e">>
K_text == <<"t", "e", "x", "t">>
K_f == <<"f">>
K_zzz == <<"z", "z", "z">>

-----------------------------------------------------------------------------
(* guess_items *)

candidate_keys_items_first ==
    << K_items, K_successCriteria, K_criteria, K_criterios, K_wcag,
       K_guidelines, K_Guidelines >>
candidate_keys ==
    << K_successCriteria,
       K_criteria,
       K_criterios,
       K_items,
       K_wcag,
       K_guidelines,
       K_Guidelines >>

\* for k in candidate_keys: if k in data and isinstance(data[k], list): return data[k]
RECURSIVE ScanCandidateKeys(_, _)
ScanCandidateKeys(d, i) ==
    IF i > Len(candidate_keys) THEN None
    ELSE IF HasKey(d, candidate_keys[i]) /\ IsList(Get(d, candidate_keys[i]))
         THEN Get(d, candidate_keys[i])
         ELSE ScanCandidateKeys(d, i + 1)

\* isinstance(x, list) and x and all(isinstance(e, dict) for e in x)
IsRecordList(x) ==
    IsList(x) /\ Truthy(x) /\ \A j \in DOMAIN x.elems : IsDict(x.elems[j])

\* for k, v in data.items(): if <v is a non-empty list of dicts>: return v
RECURSIVE ScanValues(_, _)
ScanValues(d, i) ==
    IF i > Len(d.pairs) THEN None
    ELSE IF IsRecordList(d.pairs[i][2]) THEN d.pairs[i][2]
    ELSE ScanValues(d, i + 1)

guess_items(d) ==
    IF IsList(d) THEN d
    ELSE IF IsDict(d)
         THEN LET hit == ScanCandidateKeys(d, 1)
              IN IF hit # None THEN hit ELSE ScanValues(d, 1)
         ELSE None

-----------------------------------------------------------------------------
(* extract_id *)

\* Last index of the maximal run of digits that starts at p (p - 1 if none).
RECURSIVE DigitRunEnd(_, _)
DigitRunEnd(s, p) ==
    IF p <= Len(s) /\ IsDigit(s[p]) THEN DigitRunEnd(s, p + 1) ELSE p - 1

\* Greedy match of \d+\.\d+\.\d+ starting at index p: the index of its last
\* character, or 0 if there is no match at p.
MatchEnd(s, p) ==
    LET e1 == DigitRunEnd(s, p)
        e2 == DigitRunEnd(s, e1 + 2)
        e3 == DigitRunEnd(s, e2 + 2)
    IN IF e1 < p \/ e1 + 1 > Len(s) THEN 0
       ELSE IF s[e1 + 1] # "." \/ e2 < e1 + 2 \/ e2 + 1 > Len(s) THEN 0
       ELSE IF s[e2 + 1] # "." \/ e3 < e2 + 2 THEN 0
       ELSE e3

\* ID_RE.match(s) for ID_RE = ^\d+\.\d+\.\d+$ ; $ also matches just before a
\* newline that ends the string.
ID_RE_match(s) ==
    LET e == MatchEnd(s, 1)
    IN /\ e # 0
       /\ \/ e = Len(s)
          \/ e = Len(s) - 1 /\ s[Len(s)] = "\n"

\* re.search(r"(\d+\.\d+\.\d+)", s).group(1), or None: the leftmost match
RECURSIVE re_search(_, _)
re_search(s, p) ==
    IF p > Len(s) THEN None
    ELSE IF MatchEnd(s, p) # 0 THEN Str(SubSeq(s, p, MatchEnd(s, p)))
    ELSE re_search(s, p + 1)

id_fields ==
    << K_id, K_scId, K_successCriterion, K_criterion, K_numero, K_number >>

\* first loop: a candidate that is a str and, stripped, matches ID_RE
RECURSIVE ExactScan_unstripped(_, _)
ExactScan_unstripped(candidates, i) ==
    IF i > Len(candidates) THEN None
    ELSE IF IsStr(candidates[i]) /\ ID_RE_match(candidates[i].chars)
         THEN candidates[i]
         ELSE ExactScan_unstripped(candidates, i + 1)

RECURSIVE ExactScan(_, _)
ExactScan(candidates, i) ==
    IF i > Len(candidates) THEN None
    ELSE IF IsStr(candidates[i]) /\ ID_RE_match(Strip(candidates[i].chars))
         THEN Str(Strip(candidates[i].chars))
         ELSE ExactScan(candidates, i + 1)

\* second loop: a candidate that is a str and contains the pattern
LooseScan_absent(candidates, i) == None
RECURSIVE LooseScan(_, _)
LooseScan(candidates, i) ==
    IF i > Len(candidates) THEN None
    ELSE IF IsStr(candidates[i]) /\ re_search(candidates[i].chars, 1) # None
         THEN re_search(candidates[i].chars, 1)
         ELSE LooseScan(candidates, i + 1)

extract_id(x) ==
    IF ~IsDict(x) THEN None
    ELSE LET candidates == [i \in DOMAIN id_fields |-> Get(x, id_fields[i])]
             exact == ExactScan(candidates, 1)
         IN IF exact # None THEN exact ELSE LooseScan(candidates, 1)

-----------------------------------------------------------------------------
(* flatten_items: the index is a function from identifier text to record *)

EmptyMap == [k \in {} |-> None]

\* for item in items: _id = extract_id(item); if _id: out[_id] = item
RECURSIVE FlattenLoop_first_wins(_, _, _)
FlattenLoop_first_wins(items, i, out) ==
    IF i > Len(items) THEN out
    ELSE LET id == extract_id(items[i])
         IN IF Truthy(id)
            THEN FlattenLoop_first_wins(items, i + 1, out @@ (id.chars :> items[i]))
            ELSE FlattenLoop_first_wins(items, i + 1, out)

RECURSIVE FlattenLoop(_, _, _)
FlattenLoop(items, i, out) ==
    IF i > Len(items) THEN out
    ELSE LET id == extract_id(items[i])
         IN IF Truthy(id)
            THEN FlattenLoop(items, i + 1, (id.chars :> items[i]) @@ out)
            ELSE FlattenLoop(items, i + 1, out)

flatten_items_document_as_record(d) ==
    LET items == guess_items(d)
    IN IF ~Truthy(items) THEN FlattenLoop(<<d>>, 1, EmptyMap)
       ELSE FlattenLoop(items.elems, 1, EmptyMap)
flatten_items(d) ==
    LET items == guess_items(d)
    IN IF ~Truthy(items) THEN EmptyMap ELSE FlattenLoop(items.elems, 1, EmptyMap)

-----------------------------------------------------------------------------
(* diff_for_item *)

Threshold == 80

\* str.splitlines() (the only line boundary of the model's characters is \n)
RECURSIVE SplitLines(_)
SplitLines(s) ==
    LET nl == {i \in 1..Len(s) : s[i] = "\n"}
    IN IF Len(s) = 0 THEN <<>>
       ELSE IF nl = {} THEN <<s>>
       ELSE <<SubSeq(s, 1, Min(nl) - 1)>> \o SplitLines(SubSeq(s, Min(nl) + 1, Len(s)))

\* "\n".join(unified_diff(al, bl, fromfile="tenon", tofile="w3c", lineterm="")):
\* a str.  difflib's hunks are not computed: the text is its two header lines
\* together with the two line lists the hunks are computed from.
unified_diff(al, bl) ==
    [t |-> "str",
     chars |-> <<"-", "-", "-", " ", "t", "e", "n", "o", "n", "\n",
             "+", "+", "+", " ", "w", "3", "c">>,
     from |-> al, to |-> bl]

FieldDiff(k, va, vb, d) == [field |-> k, tenon |-> va, w3c |-> vb, diff |-> d]

\* the body of `for k in sorted(keys)` for one k: the entries appended
DiffField_raw_compare(x, y, k) ==
    LET va == IF IsDict(x) THEN Get(x, k) ELSE None
        vb == IF IsDict(y) THEN Get(y, k) ELSE None
    IN IF va # vb
       THEN IF IsStr(va) /\ IsStr(vb) /\ Len(va.chars) + Len(vb.chars) > Threshold
            THEN <<FieldDiff(k, va, vb,
                             unified_diff(SplitLines(va.chars), SplitLines(vb.chars)))>>
            ELSE <<FieldDiff(k, va, vb, None)>>
       ELSE <<>>
DiffField_at_threshold(x, y, k) ==
    LET va == IF IsDict(x) THEN Get(x, k) ELSE None
        vb == IF IsDict(y) THEN Get(y, k) ELSE None
    IN IF normalize_text(va) # normalize_text(vb)
       THEN IF IsStr(va) /\ IsStr(vb) /\ Len(va.chars) + Len(vb.chars) >= Threshold
            THEN <<FieldDiff(k, va, vb,
                             unified_diff(SplitLines(va.chars), SplitLines(vb.chars)))>>
            ELSE <<FieldDiff(k, va, vb, None)>>
       ELSE <<>>
DiffField(x, y, k) ==
    LET va == IF IsDict(x) THEN Get(x, k) ELSE None
        vb == IF IsDict(y) THEN Get(y, k) ELSE None
        ta == normalize_text(va)
        tb == normalize_text(vb)
    IN IF ta # tb
       THEN IF IsStr(va) /\ IsStr(vb) /\ Len(va.chars) + Len(vb.chars) > Threshold
            THEN <<FieldDiff(k, va, vb,
                             unified_diff(SplitLines(va.chars), SplitLines(vb.chars)))>>
            ELSE <<FieldDiff(k, va, vb, None)>>
       ELSE <<>>

RECURSIVE DiffLoop(_, _, _, _)
DiffLoop(x, y, ks, i) ==
    IF i > Len(ks) THEN <<>>
    ELSE DiffField(x, y, ks[i]) \o DiffLoop(x, y, ks, i + 1)

\* keys = set(a.keys()) | set(b.keys()), cut to the whitelist if it is truthy
DiffKeys(x, y, whitelist) ==
    LET keys == (IF IsDict(x) THEN Keys(x) ELSE {}) \cup
                (IF IsDict(y) THEN Keys(y) ELSE {})
    IN IF Truthy(whitelist)
       THEN keys \cap {whitelist.elems[i].chars : i \in DOMAIN whitelist.elems}
       ELSE keys

diff_for_item(x, y, whitelist) ==
    DiffLoop(x, y, Sorted(DiffKeys(x, y, whitelist)), 1)

-----------------------------------------------------------------------------
(* Inputs of main: the documents the two sources may hold *)

MaxItems == 2

S_111 == <<"1", ".", "1", ".", "1">>
S_1101 == <<"1", ".", "1", "0", ".", "1">>
S_121 == <<"1", ".", "2", ".", "1">>
S_111_title == <<"1", ".", "1", ".", "1", " ", "N", "o", "n", "-", "t", "e", "x", "t", " ", "C", "o", "n", "t", "e", "n", "t">>
S_A == <<"A">>
S_AA == <<"A", "A">>
S_A_padded == <<" ", "A", " ">>
S_Untitled == <<"U", "n", "t", "i", "t", "l", "e", "d">>
S_WCAG == <<"W", "C", "A", "G">>

T1 == Dict(<< <<K_id, Str(S_111_title)>>, <<K_level, Str(S_A)>> >>)
T2 == Dict(<< <<K_id, Str(S_1101)>>, <<K_level, Str(S_AA)>> >>)
T3 == Dict(<< <<K_id, Str(S_121)>>, <<K_level, Str(S_A)>> >>)
T4 == Dict(<< <<K_scId, Str(S_111)>>, <<K_level, Str(S_AA)>> >>)
T5 == Dict(<< <<K_title, Str(S_Untitled)>> >>)

W1 == Dict(<< <<K_number, Str(S_111)>>, <<K_level, Str(S_AA)>> >>)
W2 == Dict(<< <<K_number, Str(S_1101)>>, <<K_level, Str(S_AA)>> >>)
W3 == Dict(<< <<K_level, Str(S_A_padded)>>, <<K_id, Str(S_121)>> >>)
W4 == Dict(<< <<K_number, Str(S_121)>>, <<K_level, Str(S_A)>> >>)
W5 == Num(7)

TenonPool == <<T1, T2, T3, T4>>
W3cPool == <<W1, W2, W3, W4>>

TenonDocs ==
    {List(l) : l \in UNION {[1..n -> {TenonPool[i] : i \in DOMAIN TenonPool}] : n \in 0..MaxItems}}
    \cup { Dict(<< <<K_title, Str(S_WCAG)>>, <<K_successCriteria, List(<<T1, T5, T4>>)>> >>),
           Dict(<< <<K_title, Str(S_WCAG)>>, <<K_f, List(<<T2, T3, T1>>)>> >>),
           Dict(<< <<K_title, Str(S_WCAG)>> >>),
           T3,
           Num(0) }

W3cDocs ==
    {List(l) : l \in UNION {[1..n -> {W3cPool[i] : i \in DOMAIN W3cPool}] : n \in 0..MaxItems}}
    \cup { Dict(<< <<K_items, Str(S_WCAG)>>, <<K_criteria, List(<<W4, W5, W1>>)>> >>),
           Dict(<< <<K_f, List(<<W5, W1>>)>>, <<K_text, List(<<W2>>)>> >>),
           Dict(<< <<K_f, List(<<W5>>)>> >>),
           Str(S_WCAG) }

-----------------------------------------------------------------------------
(* main *)

\* interesting_fields = None
interesting_fields == None

\* no function call in progress
NoCall ==
    /\ item = None /\ data = None /\ v = None
    /\ a = None /\ b = None /\ key_whitelist = None /\ ret = None

Init ==
    /\ pc = "start"
    /\ tenon = None /\ w3c = None
    /\ tenon_map = EmptyMap /\ w3c_map = EmptyMap
    /\ only_tenon = <<>> /\ only_w3c = <<>> /\ common = <<>>
    /\ changes = <<>> /\ pos = 0
    /\ report = None
    /\ NoCall

\* tenon = json.loads(...); w3c = json.loads(...)
ReadInputs ==
    /\ pc = "start"
    /\ \E d1 \in TenonDocs, d2 \in W3cDocs : tenon' = d1 /\ w3c' = d2
    /\ pc' = "flatten_tenon"
    /\ UNCHANGED <<tenon_map, w3c_map, only_tenon, only_w3c, common, changes,
                   pos, report, item, data, v, a, b, key_whitelist, ret>>

\* tenon_map = flatten_items(tenon)
FlattenTenon ==
    /\ pc = "flatten_tenon"
    /\ tenon_map' = flatten_items(tenon)
    /\ pc' = "flatten_w3c"
    /\ UNCHANGED <<tenon, w3c, w3c_map, only_tenon, only_w3c, common, changes,
                   pos, report, item, data, v, a, b, key_whitelist, ret>>

\* w3c_map = flatten_items(w3c)
FlattenW3c ==
    /\ pc = "flatten_w3c"
    /\ w3c_map' = flatten_items(w3c)
    /\ pc' = "classify"
    /\ UNCHANGED <<tenon, w3c, tenon_map, only_tenon, only_w3c, common, changes,
                   pos, report, item, data, v, a, b, key_whitelist, ret>>

\* sorted(xs - ys)
only_in_unsubtracted(xs, ys) == Sorted(xs)
only_in(xs, ys) == Sorted(xs \ ys)

\* sorted(xs & ys)
common_of(xs, ys) == Sorted(xs \cap ys)

\* only_tenon, only_w3c, common = sorted(...); changes = []
Classify ==
    /\ pc = "classify"
    /\ LET tenon_ids == DOMAIN tenon_map
           w3c_ids == DOMAIN w3c_map
       IN /\ only_tenon' = only_in(tenon_ids, w3c_ids)
          /\ only_w3c' = only_in(w3c_ids, tenon_ids)
          /\ common' = common_of(tenon_ids, w3c_ids)
    /\ changes' = <<>>
    /\ pos' = 1
    /\ pc' = "loop"
    /\ UNCHANGED <<tenon, w3c, tenon_map, w3c_map, report,
                   item, data, v, a, b, key_whitelist, ret>>

\* one iteration of `for _id in common`
LoopEntry_unconditional(id, x, y) ==
    <<[id |-> id, diffs |-> diff_for_item(x, y, interesting_fields)]>>
LoopEntry(id, x, y) ==
    LET diffs == diff_for_item(x, y, interesting_fields)
    IN IF Len(diffs) > 0 THEN <<[id |-> id, diffs |-> diffs]>> ELSE <<>>

DiffCommon ==
    /\ pc = "loop"
    /\ pos <= Len(common)
    /\ changes' = changes \o LoopEntry(common[pos], tenon_map[common[pos]],
                                       w3c_map[common[pos]])
    /\ pos' = pos + 1
    /\ UNCHANGED <<pc, tenon, w3c, tenon_map, w3c_map, only_tenon, only_w3c,
                   common, report, item, data, v, a, b, key_whitelist, ret>>

\* report = {...}; generated_at (the wall clock) is left out
MakeReport ==
    [counts |-> [tenon_items |-> Cardinality(DOMAIN tenon_map),
                 w3c_items |-> Cardinality(DOMAIN w3c_map),
                 only_tenon |-> Len(only_tenon),
                 only_w3c |-> Len(only_w3c),
                 changed_common |-> Len(changes),
                 common_total |-> Len(common)],
     only_tenon |-> only_tenon,
     only_w3c |-> only_w3c,
     changes |-> changes]

Assemble ==
    /\ pc = "loop"
    /\ pos > Len(common)
    /\ report' = MakeReport
    /\ pc' = "done"
    /\ UNCHANGED <<tenon, w3c, tenon_map, w3c_map, only_tenon, only_w3c, common,
                   changes, pos, item, data, v, a, b, key_whitelist, ret>>

Next ==
    \/ ReadInputs
    \/ FlattenTenon
    \/ FlattenW3c
    \/ Classify
    \/ DiffCommon
    \/ Assemble

Spec == Init /\ [][Next]_vars

-----------------------------------------------------------------------------
(* The functions called on their own: the argument is drawn, the call returns *)

\* main has not run
MainIdle ==
    /\ tenon = None /\ w3c = None
    /\ tenon_map = EmptyMap /\ w3c_map = EmptyMap
    /\ only_tenon = <<>> /\ only_w3c = <<>> /\ common = <<>>
    /\ changes = <<>> /\ pos = 0
    /\ report = None

mainVars == <<tenon, w3c, tenon_map, w3c_map, only_tenon, only_w3c, common,
              changes, pos, report>>

\* the elements of a set of integers in ascending order
RECURSIVE Ascending(_)
Ascending(S) == IF S = {} THEN <<>> ELSE <<Min(S)>> \o Ascending(S \ {Min(S)})

\* n copies of the character c
Rep(c, n) == [i \in 1..n |-> c]

(* normalize_text *)

MaxStrLen == 3

NormChars == {"a", " ", "\n"}
NormStrings == UNION {[1..n -> NormChars] : n \in 0..MaxStrLen}

NormInputs ==
    {Str(s) : s \in NormStrings}
    \cup {List(<<Str(s)>>) : s \in NormStrings}
    \cup {Dict(<< <<s, Num(1)>> >>) : s \in NormStrings}
    \cup { None, Num(0), Num(12), Num(-3), Bool(TRUE), Bool(FALSE),
           List(<<>>), List(<<Num(1), None, Bool(FALSE)>>), Dict(<<>>),
           Dict(<< <<K_f, Str(<<"\"", "\\">>)>>, <<K_id, List(<<Num(10)>>)>> >>) }

InitNorm ==
    /\ pc = "call"
    /\ v \in NormInputs
    /\ item = None /\ data = None /\ a = None /\ b = None
    /\ key_whitelist = None /\ ret = None
    /\ MainIdle

CallNormalize ==
    /\ pc = "call"
    /\ ret' = normalize_text(v)
    /\ pc' = "ret"
    /\ UNCHANGED <<mainVars, item, data, v, a, b, key_whitelist>>

SpecNorm == InitNorm /\ [][CallNormalize]_vars

(* extract_id *)

MaxCand == 2

\* the candidate fields and one field that is no candidate
ExtractFields == id_fields \o <<K_title>>

ExtractValues ==
    << Str(S_111),
       Str(<<"2", ".", "2", ".", "2">>),
       Str(<<"1", ".", "1", ".", "1", " ">>),
       Str(<<"\t", "2", ".", "2", ".", "2", "\n">>),
       Str(<<"3", ".", "3", ".", "3", " ", "T", "i", "t", "l", "e">>),
       Str(<<"x", "1", "2", ".", "3", ".", "4", "5", ".", "6">>),
       Str(<<"1", ".", "1">>),
       Num(111),
       None >>

\* the record holding fields F (indices of ExtractFields) with values f
RecordOf(F, f) ==
    Dict([i \in 1..Cardinality(F) |->
            <<ExtractFields[Ascending(F)[i]], ExtractValues[f[Ascending(F)[i]]]>>])

ExtractInputs ==
    {RecordOf(F, f) :
        <<F, f>> \in UNION {{<<G, g>> : g \in [G -> DOMAIN ExtractValues]} :
                            G \in {H \in SUBSET DOMAIN ExtractFields :
                                      Cardinality(H) <= MaxCand}}}
    \cup {None, Str(S_111), List(<<Str(S_111)>>), Num(111)}

InitExtract ==
    /\ pc = "call"
    /\ item \in ExtractInputs
    /\ data = None /\ v = None /\ a = None /\ b = None
    /\ key_whitelist = None /\ ret = None
    /\ MainIdle

CallExtract ==
    /\ pc = "call"
    /\ ret' = extract_id(item)
    /\ pc' = "ret"
    /\ UNCHANGED <<mainVars, item, data, v, a, b, key_whitelist>>

SpecExtract == InitExtract /\ [][CallExtract]_vars

(* guess_items *)

MaxKeys == 2

GuessKeys == <<K_items, K_criteria, K_title, K_f>>

GuessValues ==
    << List(<<>>),
       List(<<T1>>),
       List(<<W1, T5>>),
       List(<<T1, Num(1)>>),
       List(<<Num(7)>>),
       Str(S_WCAG),
       Dict(<< <<K_items, List(<<T1>>)>> >>) >>

\* the mappings with at most MaxKeys distinct keys of GuessKeys, in any order
GuessDicts ==
    {Dict([i \in DOMAIN ks |-> <<GuessKeys[ks[i]], GuessValues[vs[i]]>>]) :
        <<ks, vs>> \in UNION {
            {k \in [1..n -> DOMAIN GuessKeys] :
                \A i, j \in 1..n : k[i] = k[j] => i = j}
            \X [1..n -> DOMAIN GuessValues] : n \in 0..MaxKeys}}

GuessInputs ==
    GuessDicts \cup {GuessValues[i] : i \in DOMAIN GuessValues}
               \cup {None, Num(3), Bool(TRUE)}

InitGuess ==
    /\ pc = "call"
    /\ data \in GuessInputs
    /\ item = None /\ v = None /\ a = None /\ b = None
    /\ key_whitelist = None /\ ret = None
    /\ MainIdle

CallGuess ==
    /\ pc = "call"
    /\ ret' = guess_items(data)
    /\ pc' = "ret"
    /\ UNCHANGED <<mainVars, item, data, v, a, b, key_whitelist>>

SpecGuess == InitGuess /\ [][CallGuess]_vars

(* diff_for_item *)

\* how far the lengths of the long texts range around half the threshold
LenSlack == 1

Missing == [t |-> "missing"]
Field(k, x) == IF x = Missing THEN <<>> ELSE << <<k, x>> >>

LongLens == ((Threshold \div 2) - LenSlack)..((Threshold \div 2) + LenSlack)

TextA == {Missing} \cup {Str(Rep("x", n)) : n \in LongLens}
TextB ==
    {Missing, List(<<Str(Rep("y", Threshold))>>),
     Str(Rep("x", Threshold \div 2) \o <<" ">>)}
    \cup {Str(Rep("y", n)) : n \in LongLens}

ValueA ==
    { Missing, None, Str(<<>>), Str(<<" ", "\t">>), Str(<<"1">>), Num(1),
      Str(<<"t", "r", "u", "e">>), Str(<<"[", "1", ",", " ", "2", "]">>), Str(<<"{", "\"", "a", "\"", ":", " ", "1", ",", " ", "\"", "b", "\"", ":", " ", "2", "}">>) }
ValueB ==
    { Missing, None, Str(<<>>), Str(<<" ", " ">>), Str(<<"1", " ">>), Num(1),
      Bool(TRUE), List(<<Num(1), Num(2)>>),
      Dict(<< <<<<"b">>, Num(2)>>, <<<<"a">>, Num(1)>> >>) }

LevelA == {Missing, Str(S_A)}
LevelB == {Missing, Str(S_A), Str(S_A_padded), Str(S_AA)}

RecordsA ==
    {Dict(Field(K_text, x) \o Field(K_f, y) \o Field(K_level, z)) :
        x \in TextA, y \in ValueA, z \in LevelA}
RecordsB ==
    {Dict(Field(K_level, z) \o Field(K_f, y) \o Field(K_text, x)) :
        x \in TextB, y \in ValueB, z \in LevelB}

Whitelists ==
    { None, List(<<>>), List(<<Str(K_level), Str(K_zzz)>>), List(<<Str(K_f)>>) }

InitDiff ==
    /\ pc = "call"
    /\ a \in RecordsA
    /\ b \in RecordsB
    /\ key_whitelist \in Whitelists
    /\ item = None /\ data = None /\ v = None /\ ret = None
    /\ MainIdle

CallDiff ==
    /\ pc = "call"
    /\ ret' = List(diff_for_item(a, b, key_whitelist))
    /\ pc' = "ret"
    /\ UNCHANGED <<mainVars, item, data, v, a, b, key_whitelist>>

SpecDiff == InitDiff /\ [][CallDiff]_vars


-----------------------------------------------------------------------------
(* Properties of main *)

Range(q) == {q[i] : i \in DOMAIN q}
NoRepeat(q) == \A i, j \in DOMAIN q : q[i] = q[j] => i = j

Classified == pc \in {"loop", "done"}

\* C1: only_tenon and common partition the keys of tenon_map, only_w3c and
\* common partition the keys of w3c_map; no identifier is in an only-list and in
\* common, none is listed twice, and the report carries these only-lists.
C1_Partition ==
    Classified =>
        /\ Range(only_tenon) \cap Range(common) = {}
        /\ Range(only_tenon) \cup Range(common) = DOMAIN tenon_map
        /\ Range(only_w3c) \cap Range(common) = {}
        /\ Range(only_w3c) \cup Range(common) = DOMAIN w3c_map
        /\ NoRepeat(only_tenon) /\ NoRepeat(only_w3c) /\ NoRepeat(common)
        /\ pc = "done" =>
              /\ report.only_tenon = only_tenon
              /\ report.only_w3c = only_w3c
              /\ report.counts.common_total = Len(common)

C1_Witness ==
    /\ pc = "done"
    /\ only_tenon # <<>> /\ only_w3c # <<>> /\ common # <<>>

\* The documents of the scenario: one record on each side.
Scenario == tenon = List(<<T1>>) /\ w3c = List(<<W1>>)

\* C2 as stated: in the scenario both records resolve to "1.1.1", nothing is
\* only-A or only-B, and the one changed entry has a single field difference,
\* on level (A vs AA, no diff text).
C2_SingleDifference ==
    (pc = "done" /\ Scenario) =>
        /\ DOMAIN tenon_map = {S_111} /\ DOMAIN w3c_map = {S_111}
        /\ report.only_tenon = <<>> /\ report.only_w3c = <<>>
        /\ Len(report.changes) = 1
        /\ report.changes[1].id = S_111
        /\ report.changes[1].diffs = <<FieldDiff(K_level, Str(S_A), Str(S_AA), None)>>

\* C2 amended: in the scenario both records resolve to "1.1.1", nothing is
\* only-A or only-B, and the one changed entry has three field differences, in
\* the order id, level, number: the two identifier-bearing fields each exist
\* on one side only, and level is A vs AA; none has diff text.
C2_ThreeDifferences ==
    (pc = "done" /\ Scenario) =>
        /\ DOMAIN tenon_map = {S_111} /\ DOMAIN w3c_map = {S_111}
        /\ report.only_tenon = <<>> /\ report.only_w3c = <<>>
        /\ Len(report.changes) = 1
        /\ report.changes[1].id = S_111
        /\ report.changes[1].diffs =
              << FieldDiff(K_id, Str(S_111_title), None, None),
                 FieldDiff(K_level, Str(S_A), Str(S_AA), None),
                 FieldDiff(K_number, None, Str(S_111), None) >>

C2_Witness == pc = "done" /\ Scenario

\* The list flatten_items iterates over.
ItemsOf(doc) ==
    IF Truthy(guess_items(doc)) THEN guess_items(doc).elems ELSE <<>>

\* m is the last-write-wins index of the record list of doc
IsIndexOf(m, doc) ==
    LET items == ItemsOf(doc)
        yielding(id) == {i \in DOMAIN items : extract_id(items[i]) = Str(id)}
    IN /\ DOMAIN m = {extract_id(items[i]).chars :
                         i \in {j \in DOMAIN items : extract_id(items[j]) # None}}
       /\ \A id \in DOMAIN m :
             /\ m[id] = items[Max(yielding(id))]
             /\ IsDict(m[id])
             /\ extract_id(m[id]) = Str(id)

\* C8: each index holds exactly the identifiers extracted from the mapping
\* elements of its record list, each mapped to the last element yielding it;
\* elements that are not mappings or yield no identifier are in no index.
C8_LastWriteWins ==
    /\ pc \notin {"start", "flatten_tenon"} => IsIndexOf(tenon_map, tenon)
    /\ pc \notin {"start", "flatten_tenon", "flatten_w3c"} => IsIndexOf(w3c_map, w3c)

C8_Witness ==
    /\ pc = "classify"
    /\ \E i, j \in DOMAIN ItemsOf(tenon) :
          /\ i < j
          /\ extract_id(ItemsOf(tenon)[i]) # None
          /\ extract_id(ItemsOf(tenon)[i]) = extract_id(ItemsOf(tenon)[j])
          /\ ItemsOf(tenon)[i] # ItemsOf(tenon)[j]
    /\ \E i \in DOMAIN ItemsOf(tenon) :
          IsDict(ItemsOf(tenon)[i]) /\ extract_id(ItemsOf(tenon)[i]) = None
    /\ \E i \in DOMAIN ItemsOf(w3c) : ~IsDict(ItemsOf(w3c)[i])
    /\ w3c_map # EmptyMap

\* C10: changes holds one entry, with the differ's non-empty result, for each
\* common identifier whose paired records differ, and nothing else; so
\* changed_common <= common_total.
C10_ChangesExact ==
    pc = "done" =>
        LET changed == {id \in Range(common) :
                           diff_for_item(tenon_map[id], w3c_map[id], None) # <<>>}
        IN /\ {report.changes[i].id : i \in DOMAIN report.changes} = changed
           /\ Len(report.changes) = Cardinality(changed)
           /\ \A i \in DOMAIN report.changes :
                 /\ report.changes[i].diffs # <<>>
                 /\ report.changes[i].diffs =
                       diff_for_item(tenon_map[report.changes[i].id],
                                     w3c_map[report.changes[i].id], None)
                 /\ report.changes[i].id \notin
                       Range(report.only_tenon) \cup Range(report.only_w3c)
           /\ report.counts.changed_common = Len(report.changes)
           /\ report.counts.common_total = Len(common)
           /\ report.counts.changed_common <= report.counts.common_total

C10_Witness ==
    /\ pc = "done"
    /\ Len(report.changes) >= 1
    /\ Len(report.changes) < Len(common)
    /\ only_tenon # <<>>

-----------------------------------------------------------------------------
(* Properties of normalize_text (SpecNorm) *)

\* every string inside x: its string values and, for mappings, its keys
RECURSIVE NestedStrings(_)
NestedStrings(x) ==
    CASE x.t = "str" -> {x.chars}
      [] x.t = "list" -> UNION {NestedStrings(x.elems[i]) : i \in DOMAIN x.elems}
      [] x.t = "dict" ->
            Keys(x) \cup UNION {NestedStrings(x.pairs[i][2]) : i \in DOMAIN x.pairs}
      [] OTHER -> {}

HasSpaceRun(s) == \E i \in 1..(Len(s) - 1) : s[i] = " " /\ s[i + 1] = " "

IsComposite(x) == IsList(x) \/ IsDict(x)

\* C7 as stated: normalizing the result of normalize_text returns it unchanged,
\* for every value.
C7_Idempotent == pc = "ret" => normalize_text(ret) = ret

\* C7 amended: normalizing the result of normalize_text returns it unchanged
\* for None, strings, numbers and booleans, and for a sequence or mapping
\* exactly when none of its nested strings and keys has two adjacent spaces.
C7_IdempotentUnlessSpaceRun ==
    pc = "ret" =>
        (normalize_text(ret) = ret
            <=> ~(IsComposite(v) /\ \E s \in NestedStrings(v) : HasSpaceRun(s)))

C7_Witness ==
    /\ pc = "ret"
    /\ IsComposite(v)
    /\ \E s \in NestedStrings(v) : \E i \in DOMAIN s : s[i] = " "
    /\ \E s \in NestedStrings(v) : \E i \in DOMAIN s : s[i] = "\n"
    /\ normalize_text(ret) = ret

-----------------------------------------------------------------------------
(* Properties of extract_id (SpecExtract) *)

\* s is digits.digits.digits and nothing else
IsIdentifier(s) ==
    \E p, q \in 1..Len(s) :
        /\ 1 < p /\ p + 1 < q /\ q < Len(s)
        /\ s[p] = "." /\ s[q] = "."
        /\ \A i \in 1..Len(s) : i \notin {p, q} => IsDigit(s[i])

\* s without its leading and trailing whitespace
Trimmed(s) ==
    LET first == {i \in 1..Len(s) : \A j \in 1..i : IsSpace(s[j])}
        last == {i \in 1..Len(s) : \A j \in i..Len(s) : IsSpace(s[j])}
    IN [i \in 1..(Len(s) - Cardinality(first) - Cardinality(last)) |->
           s[i + Cardinality(first)]]

\* the first embedded identifier of s: the leftmost start, and from it the
\* longest stretch that is an identifier
Embedded(s) ==
    LET starts == {p \in 1..Len(s) : \E q \in p..Len(s) : IsIdentifier(SubSeq(s, p, q))}
        p0 == Min(starts)
        q0 == Max({q \in p0..Len(s) : IsIdentifier(SubSeq(s, p0, q))})
    IN SubSeq(s, p0, q0)
HasEmbedded(s) ==
    \E p \in 1..Len(s) : \E q \in p..Len(s) : IsIdentifier(SubSeq(s, p, q))

\* the candidate fields in the order the claim gives
C4_CandidateOrder ==
    << K_id, K_scId, K_successCriterion, K_criterion, K_numero, K_number >>

\* the two-pass reference; trim says whether pass 1 looks at the trimmed value
TwoPass(x, trim) ==
    LET val(i) == Get(x, C4_CandidateOrder[i])
        txt(i) == IF trim THEN Trimmed(val(i).chars) ELSE val(i).chars
        exact == {i \in DOMAIN C4_CandidateOrder : IsStr(val(i)) /\ IsIdentifier(txt(i))}
        loose == {i \in DOMAIN C4_CandidateOrder :
                     IsStr(val(i)) /\ HasEmbedded(val(i).chars)}
    IN IF ~IsDict(x) THEN None
       ELSE IF exact # {} THEN Str(txt(Min(exact)))
       ELSE IF loose # {} THEN Str(Embedded(val(Min(loose)).chars))
       ELSE None

\* C4 as stated: extract_id is the two-pass reference whose first pass takes
\* the first candidate that is a string whose whole content is an identifier.
C4_TwoPassWholeContent == pc = "ret" => ret = TwoPass(item, FALSE)

\* C4 amended: extract_id is the two-pass reference whose first pass takes the
\* first candidate that is a string whose content without leading and trailing
\* whitespace is an identifier, and returns that trimmed content; the second
\* pass returns the first embedded identifier of the first candidate string
\* that has one; otherwise the result is None.
C4_TwoPassTrimmed == pc = "ret" => ret = TwoPass(item, TRUE)

\* a later exact candidate wins over an earlier candidate that only embeds one
C4_Witness ==
    /\ pc = "ret"
    /\ IsDict(item)
    /\ \E i, j \in DOMAIN C4_CandidateOrder :
          /\ i < j
          /\ IsStr(Get(item, C4_CandidateOrder[i]))
          /\ HasEmbedded(Get(item, C4_CandidateOrder[i]).chars)
          /\ ~IsIdentifier(Trimmed(Get(item, C4_CandidateOrder[i]).chars))
          /\ IsStr(Get(item, C4_CandidateOrder[j]))
          /\ IsIdentifier(Get(item, C4_CandidateOrder[j]).chars)
          /\ ret = Get(item, C4_CandidateOrder[j])
          /\ ret.chars # Embedded(Get(item, C4_CandidateOrder[i]).chars)

-----------------------------------------------------------------------------
(* Properties of guess_items (SpecGuess) *)

\* the wrapper keys in the order the claim gives
C9_WrapperOrder ==
    << K_successCriteria, K_criteria, K_criterios, K_items, K_wcag,
       K_guidelines, K_Guidelines >>

Located(d) ==
    LET wrapped == {i \in DOMAIN C9_WrapperOrder :
                       \E j \in DOMAIN d.pairs :
                           /\ d.pairs[j][1] = C9_WrapperOrder[i]
                           /\ d.pairs[j][2].t = "list"}
        nested == {j \in DOMAIN d.pairs :
                      /\ d.pairs[j][2].t = "list"
                      /\ Len(d.pairs[j][2].elems) > 0
                      /\ \A e \in Range(d.pairs[j][2].elems) : e.t = "dict"}
    IN IF wrapped # {}
       THEN (CHOOSE kv \in Range(d.pairs) : kv[1] = C9_WrapperOrder[Min(wrapped)])[2]
       ELSE IF nested # {} THEN d.pairs[Min(nested)][2]
       ELSE None

\* C9: guess_items returns a sequence itself; for a mapping the value of the
\* first wrapper key, in the fixed order, that holds a sequence, else the
\* first value in the mapping's key order that is a non-empty sequence of
\* mappings; otherwise None.
C9_Locator ==
    pc = "ret" =>
        ret = (IF data.t = "list" THEN data
               ELSE IF data.t = "dict" THEN Located(data)
               ELSE None)

\* a wrapper key holding a non-sequence is skipped and the fallback passes over
\* a sequence that is not all mappings
C9_Witness ==
    /\ pc = "ret"
    /\ IsDict(data)
    /\ Len(data.pairs) = 2
    /\ data.pairs[1][1] = K_items /\ ~IsList(data.pairs[1][2])
    /\ data.pairs[2][1] = K_f
    /\ ret = data.pairs[2][2]
    /\ IsList(ret)

-----------------------------------------------------------------------------
(* Properties of diff_for_item (SpecDiff) *)

FieldsOf(diffs) == [i \in DOMAIN diffs |-> diffs[i].field]
StrictlyAscending(q) == \A i \in 1..(Len(q) - 1) : LessStr(q[i], q[i + 1])

\* C3: with no allowlist the result has one entry, carrying the two raw
\* values, for each field of either record whose normalized values differ and
\* none for any other field, in strictly ascending field order; a record
\* diffed against itself gives the empty list.
C3_OneEntryPerUnequalField ==
    (pc = "ret" /\ key_whitelist = None) =>
        /\ Range(FieldsOf(ret.elems)) =
              {k \in Keys(a) \cup Keys(b) :
                  normalize_text(Get(a, k)) # normalize_text(Get(b, k))}
        /\ StrictlyAscending(FieldsOf(ret.elems))
        /\ \A i \in DOMAIN ret.elems :
              /\ ret.elems[i].tenon = Get(a, ret.elems[i].field)
              /\ ret.elems[i].w3c = Get(b, ret.elems[i].field)
        /\ a = b => ret.elems = <<>>

\* two entries, and a field left out whose raw values differ
C3_Witness ==
    /\ pc = "ret" /\ key_whitelist = None
    /\ Len(ret.elems) >= 2
    /\ \E k \in Keys(a) \cap Keys(b) :
          /\ Get(a, k) # Get(b, k)
          /\ k \notin Range(FieldsOf(ret.elems))

AllowlistOf(whitelist) == {whitelist.elems[i].chars : i \in DOMAIN whitelist.elems}

\* C5: with an allowlist supplied, empty or not, the fields compared are those
\* of either record that are in the allowlist, so every entry names a field of
\* the allowlist.
C5_AllowlistRestricts ==
    (pc = "ret" /\ key_whitelist # None) =>
        Range(FieldsOf(ret.elems)) =
            {k \in (Keys(a) \cup Keys(b)) \cap AllowlistOf(key_whitelist) :
                normalize_text(Get(a, k)) # normalize_text(Get(b, k))}

\* C6: an entry has diff text exactly when both raw values are strings of
\* combined length above 80; otherwise its diff is None.
C6_DiffTextAboveThreshold ==
    pc = "ret" =>
        \A i \in DOMAIN ret.elems :
            LET e == ret.elems[i]
            IN (e.diff # None) <=>
                   /\ e.tenon.t = "str" /\ e.w3c.t = "str"
                   /\ Len(e.tenon.chars) + Len(e.w3c.chars) > 80

\* two differing strings of combined length exactly 80, without diff text
C6_Witness ==
    /\ pc = "ret"
    /\ \E i \in DOMAIN ret.elems :
          /\ IsStr(ret.elems[i].tenon) /\ IsStr(ret.elems[i].w3c)
          /\ Len(ret.elems[i].tenon.chars) + Len(ret.elems[i].w3c.chars) = 80
          /\ ret.elems[i].diff = None

-----------------------------------------------------------------------------
(* Order of the report's lists (Spec) *)

\* the characters of identifiers, in code point order: "." is below every digit
C11_IdChars == <<".", "0", "1", "2", "3", "4", "5", "6", "7", "8", "9">>
C11_Code(c) == CHOOSE i \in DOMAIN C11_IdChars : C11_IdChars[i] = c

\* s is before u character by character; a proper prefix is before
RECURSIVE C11_Before(_, _)
C11_Before(s, u) ==
    IF Len(u) = 0 THEN FALSE
    ELSE IF Len(s) = 0 THEN TRUE
    ELSE IF s[1] = u[1] THEN C11_Before(Tail(s), Tail(u))
    ELSE C11_Code(s[1]) < C11_Code(u[1])

C11_Ascending(q) == \A i, j \in DOMAIN q : i < j => C11_Before(q[i], q[j])

\* "1.10.1" is listed before "1.2.1" wherever q lists both
C11_TenBeforeTwo(q) ==
    \A i, j \in DOMAIN q : (q[i] = S_1101 /\ q[j] = S_121) => i < j

ChangedIds == [i \in DOMAIN changes |-> changes[i].id]

\* C11: only_tenon, only_w3c and the identifiers of changes are strictly
\* ascending character by character, so "1.10.1" comes before "1.2.1".
C11_LexicographicOrder ==
    Classified =>
        /\ C11_Ascending(only_tenon) /\ C11_TenBeforeTwo(only_tenon)
        /\ C11_Ascending(only_w3c) /\ C11_TenBeforeTwo(only_w3c)
        /\ C11_Ascending(ChangedIds) /\ C11_TenBeforeTwo(ChangedIds)
        /\ pc = "done" =>
              /\ report.only_tenon = only_tenon
              /\ report.only_w3c = only_w3c
              /\ report.changes = changes

\* both identifiers changed in common, and a third only in Tenon
C11_Witness ==
    /\ pc = "done"
    /\ {S_1101, S_121} \subseteq Range(ChangedIds)
    /\ report.only_tenon # <<>>

-----------------------------------------------------------------------------
(* A source without a record list (Spec) *)

\* guess_items finds no record list in doc
NoRecordList(doc) == guess_items(doc) = None

\* the report of a run in which source x has no record list and y is the other
EmptySource(x_map, x_only, x_items, y_map, y_only) ==
    /\ x_map = EmptyMap
    /\ x_items = 0
    /\ x_only = <<>>
    /\ common = <<>>
    /\ report.changes = <<>>
    /\ report.counts.common_total = 0 /\ report.counts.changed_common = 0
    /\ Range(y_only) = DOMAIN y_map
    /\ Len(y_only) = Cardinality(DOMAIN y_map)

\* C12: when guess_items returns None for a source, main goes past the loop
\* (its guard to assemble the report holds) to a report: that source's index,
\* item count and only-list are empty, common and
\* changes are empty, and the other only-list is all the other identifiers.
C12_EmptySource ==
    /\ ((NoRecordList(tenon) \/ NoRecordList(w3c)) /\ pc = "loop")
          => pos > Len(common)
    /\ ((NoRecordList(tenon) \/ NoRecordList(w3c)) /\ pc = "done")
          => report # None
    /\ (pc = "done" /\ NoRecordList(tenon)) =>
          EmptySource(tenon_map, report.only_tenon, report.counts.tenon_items,
                      w3c_map, report.only_w3c)
    /\ (pc = "done" /\ NoRecordList(w3c)) =>
          EmptySource(w3c_map, report.only_w3c, report.counts.w3c_items,
                      tenon_map, report.only_tenon)

\* Tenon is a single record, not a list, and W3C has identifiers
C12_Witness ==
    /\ pc = "done"
    /\ IsDict(tenon) /\ extract_id(tenon) # None
    /\ NoRecordList(tenon)
    /\ Len(report.only_w3c) >= 2

-----------------------------------------------------------------------------
(* Values that normalize alike (SpecDiff) *)

\* field k of record x is missing, null, the empty string or only whitespace
Blank(x, k) ==
    \/ ~HasKey(x, k)
    \/ Get(x, k) = None
    \/ /\ IsStr(Get(x, k))
       /\ \A i \in DOMAIN Get(x, k).chars : IsSpace(Get(x, k).chars[i])

\* C13: a field that is missing, null, empty or only whitespace on each side
\* gets no entry, whatever the allowlist; so a field that is the empty string
\* in one record and missing from the other is never reported.
C13_BlankAlike ==
    pc = "ret" =>
        /\ \A k \in Keys(a) \cup Keys(b) :
              (Blank(a, k) /\ Blank(b, k)) => k \notin Range(FieldsOf(ret.elems))
        /\ \A k \in Keys(a) \cup Keys(b) :
              \/ (HasKey(a, k) /\ Get(a, k) = Str(<<>>) /\ ~HasKey(b, k))
              \/ (HasKey(b, k) /\ Get(b, k) = Str(<<>>) /\ ~HasKey(a, k))
              => k \notin Range(FieldsOf(ret.elems))

\* with every field compared, f is only whitespace in one record and missing
\* from the other, and another field is reported
C13_Witness ==
    /\ pc = "ret" /\ key_whitelist = None
    /\ HasKey(a, K_f) /\ IsStr(Get(a, K_f)) /\ Len(Get(a, K_f).chars) > 0
    /\ Blank(a, K_f)
    /\ ~HasKey(b, K_f)
    /\ K_f \notin Range(FieldsOf(ret.elems))
    /\ ret.elems # <<>>

\* x is a number, a boolean, a sequence or a mapping
IsNonString(x) == x.t \in {"num", "bool", "list", "dict"}

\* the differ compares field k: there is no allowlist or k is in it
Compared(k) ==
    key_whitelist = None \/ (IsList(key_whitelist) /\ k \in AllowlistOf(key_whitelist))

\* string s against value x: alike when the trimmed, whitespace-collapsed s is
\* the sorted-key JSON text of x
PrintsAlike(s, x) == SubSpaces(Strip(s.chars), 1) = json_dumps(x)

S_1 == <<"1">>
S_true == <<"t", "r", "u", "e">>
S_a1b2 == <<"{", "\"", "a", "\"", ":", " ", "1", ",", " ", "\"", "b", "\"", ":", " ", "2", "}">>
D_b2a1 == Dict(<< <<<<"b">>, Num(2)>>, <<<<"a">>, Num(1)>> >>)

\* C14: for a compared field with a string on one side and a number, boolean,
\* sequence or mapping on the other, there is no entry exactly when the
\* trimmed, whitespace-collapsed string is the sorted-key JSON text of the
\* other value; so "1" against 1, "true" against true and the text
\* {"a": 1, "b": 2} against the mapping b: 2, a: 1 are unchanged.
C14_PrintedFormAlike ==
    pc = "ret" =>
        \A k \in {j \in Keys(a) \cup Keys(b) : Compared(j)} :
            LET va == Get(a, k)
                vb == Get(b, k)
                absent == k \notin Range(FieldsOf(ret.elems))
            IN /\ (IsStr(va) /\ IsNonString(vb)) => (absent <=> PrintsAlike(va, vb))
               /\ (IsStr(vb) /\ IsNonString(va)) => (absent <=> PrintsAlike(vb, va))
               /\ (va = Str(S_1) /\ vb = Num(1)) => absent
               /\ (va = Str(S_true) /\ vb = Bool(TRUE)) => absent
               /\ (va = Str(S_a1b2) /\ vb = D_b2a1) => absent

\* the text {"a": 1, "b": 2} against the mapping b: 2, a: 1 gets no entry while
\* the allowlist has the field compared
C14_Witness ==
    /\ pc = "ret" /\ key_whitelist = List(<<Str(K_f)>>)
    /\ Get(a, K_f) = Str(S_a1b2) /\ Get(b, K_f) = D_b2a1
    /\ K_f \notin Range(FieldsOf(ret.elems))

====
